---- MODULE Spec2Model ----
(***************************************************************************)
(* gym-auv: the AUV environment (AUVEnv), its vessel (AUV2D) and its path. *)
(*                                                                         *)
(* Numbers.  The code computes in floating point; the model computes in    *)
(* exact integers:                                                         *)
(*   - positions and velocities are integers;                              *)
(*   - an angle is an integer "code" c: an even c is the exact angle       *)
(*     (c/2)*(pi/4), an odd c is any angle strictly between the two        *)
(*     neighbouring exact ones.  So Pi = 8, a quarter turn is 4, and the   *)
(*     floor of angle/(pi/4) is c \div 2.  Path directions are multiples   *)
(*     of a quarter turn.  The heading of a vessel that moves is a         *)
(*     multiple of a quarter turn too, so that its position stays on the   *)
(*     grid; a heading with the noise generate adds (an odd code) is       *)
(*     explored for a vessel at rest only (VesselSpec);                    *)
(*   - an arc length that the minimiser of path.py returns is a whole      *)
(*     number s and the side of s it lies on: fminbound stops within its   *)
(*     tolerance (xtol = 1e-6) of the minimiser, on either side, so        *)
(*     a comparison with a whole number is decided by the side where the   *)
(*     grid values are equal;                                              *)
(*   - an observation channel x in [-1, 1] is the integer Scale*x          *)
(*     (rounded down where the division is not exact);                     *)
(*   - a reward r is the integer nearest to Scale*Scale*r (the code's      *)
(*     value is off it by reward_ds times the minimiser's tolerance).      *)
(*                                                                         *)
(* Exceptions.  A Python exception ends the call at the statement that     *)
(* raises it; the assignments made before it stay.  ret records how the    *)
(* last call ended.                                                        *)
(*                                                                         *)
(* Specifications.                                                         *)
(*   Spec         AUVEnv(config) and the calls on the object it leaves.    *)
(*                The constructor's reset raises (see Reset), so this      *)
(*                object never holds an episode.                           *)
(*   ConfigSpec   the same, for a configuration that lacks one option.     *)
(*   EpisodeSpec  the methods of AUVEnv on an object that holds an         *)
(*                episode: the fields as reset and generate assign them    *)
(*                once the curve of line 171 is given, with the curve's    *)
(*                default length.  No run of the repository as it stands   *)
(*                makes such an object; this is the object the methods     *)
(*                are written for.  It serves the properties that hold     *)
(*                of the methods; every behaviour shown to break a         *)
(*                property is a behaviour of Spec, ConfigSpec, VesselSpec  *)
(*                or CurveSpec.                                            *)
(*   VesselSpec   AUV2D(t_step, init_pos) on its own, and its step.        *)
(*   CurveSpec    RandomCurveThroughOrigin(rng, nwaypoints, length) on     *)
(*                its own.                                                 *)
(***************************************************************************)
EXTENDS Integers, Sequences, FiniteSets, TLC

VARIABLES
    config,       \* AUVEnv.config: the configuration dictionary
    vessel,       \* AUVEnv.vessel: an AUV2D record, or None
    path,         \* AUVEnv.path: a curve record, or None
    np_random,    \* AUVEnv.np_random: None, or the generator's seed and draw count
    obstacles,    \* AUVEnv.obstacles: the list of obstacles
    reward,       \* AUVEnv.reward: the accumulated reward (times Scale*Scale)
    path_prog,    \* AUVEnv.path_prog: arc length covered, an Arc
    last_action,  \* AUVEnv.last_action: the last raw action
    steps,        \* number of step calls made (bounds the exploration only)
    ret,          \* the last call: its name, its exception (and the key of a
                  \* KeyError), what it returned, and (seen) the value of
                  \* self.path_prog that its observe read
    curve         \* a RandomCurveThroughOrigin(rng, nwaypoints, length) call in
                  \* progress: its arguments and locals, or None

vars == <<steps, ret, config, vessel, path, np_random, obstacles, reward,
          path_prog, last_action, curve>>

\* Python's None, as a record so that it compares with the objects
None == [none |-> TRUE]

(***************************************************************************)
(* Bounds of the exploration.                                              *)
(***************************************************************************)
\* resolution of an observation channel: channel value = integer / Scale
Scale == 4
\* step calls explored per run
MaxSteps == 2
\* accelerations accumulated in the surge and sway velocities explored, in
\* units of one time step; the yaw rate is at most one quarter turn per step
MaxVel == 2

(***************************************************************************)
(* Program constants.                                                      *)
(***************************************************************************)
nstates == 6
nsectors == 8
\* np.pi as an angle code
Pi == 8
\* self.reward < -300
RewardFloor == -300
\* dist_to_endpoint < 10
EndpointRadius == 10
\* abs(self.path_prog - self.path.length) < 1
ArcTolerance == 1
\* velocity[1] / 0.2  ==  velocity[1] * 5
SwayGain == 5
\* AUV2D(..., width=4)
DefaultWidth == 4
\* RandomCurveThroughOrigin(rng, nwaypoints, length=400)
DefaultLength == 400
\* seed(self, seed=5)
DefaultSeed == 5
\* n_samples = min(10, len(self.prev_inputs))
RudderWindow == 10
\* gym_auv.utils.constants
MAX_SPEED == 2
THRUST_MIN_AUV == -3
THRUST_MAX_AUV == 14
RUDDER_MAX_AUV == 2

(***************************************************************************)
(* Arithmetic helpers.                                                     *)
(***************************************************************************)
Abs(x) == IF x < 0 THEN -x ELSE x
Max(a, b) == IF a < b THEN b ELSE a
\* a clip that lets every value through
ClipId(x, lo, hi) == x
\* np.clip(x, lo, hi)
Clip(x, lo, hi) == IF x < lo THEN lo ELSE IF x > hi THEN hi ELSE x

\* floor of the square root: linalg.norm of an integer vector, rounded down.
\* floor(sqrt(n)) < k  <=>  sqrt(n) < k  for an integer k, so every
\* comparison of a norm with an integer is exact.
RECURSIVE ISqrtIn(_, _, _)
\* the k of lo..hi with k*k <= n < (k + 1)*(k + 1), by halving
ISqrtIn(n, lo, hi) ==
    IF lo = hi THEN lo
    ELSE LET mid == (lo + hi + 1) \div 2
         IN  IF mid * mid <= n THEN ISqrtIn(n, mid, hi)
             ELSE ISqrtIn(n, lo, mid - 1)
\* (46340 is the largest k whose square is a 32-bit integer)
ISqrt(n) == ISqrtIn(n, 0, IF n < 46340 THEN n ELSE 46340)
Norm(v) == ISqrt(v[1] * v[1] + v[2] * v[2])

(***************************************************************************)
(* gym_auv.utils.geomutils: princip and Rzyx.                              *)
(***************************************************************************)
\* princip(angle): the angle wrapped to (-pi, pi]
princip(c) == ((c + Pi - 1) % (2 * Pi)) - (Pi - 1)

\* Rzyx(0, 0, psi).dot([x, y, z]): rotation about the vertical axis by psi;
\* the third component is unchanged.  The grid holds the rotation of a
\* vector by a whole number of quarter turns, and the rotation of a vector
\* without a planar part by any angle (it stays as it is).  The rotation of
\* a planar vector by another angle is off the grid and has no value here.
Rzyx(psi, v) ==
    IF v[1] = 0 /\ v[2] = 0 THEN <<v[1], v[2], v[3]>>
    ELSE CASE psi % 16 = 0 -> <<v[1], v[2], v[3]>>
           [] psi % 16 = 4 -> <<-v[2], v[1], v[3]>>
           [] psi % 16 = 8 -> <<-v[1], -v[2], v[3]>>
           [] psi % 16 = 12 -> <<v[2], -v[1], v[3]>>

\* np.arctan2(y, x) of an integer vector, as an angle code in -7 .. 8
arctan2(y, x) ==
    CASE y = 0 /\ x >= 0 -> 0
      [] y = 0 /\ x < 0 -> Pi
      [] y > 0 /\ x > 0 -> IF y < x THEN 1 ELSE IF y = x THEN 2 ELSE 3
      [] y > 0 /\ x = 0 -> 4
      [] y > 0 /\ x < 0 -> IF y > -x THEN 5 ELSE IF y = -x THEN 6 ELSE 7
      [] y < 0 /\ x > 0 -> IF -y < x THEN -1 ELSE IF -y = x THEN -2 ELSE -3
      [] y < 0 /\ x = 0 -> -4
      [] y < 0 /\ x < 0 -> IF -y > -x THEN -5 ELSE IF y = x THEN -6 ELSE -7

(***************************************************************************)
(* objects/auv.py: AUV2D.                                                  *)
(***************************************************************************)
\* _surge(surge)
_surge(surge) ==
    Clip(surge, 0, 1) * (THRUST_MAX_AUV - THRUST_MIN_AUV) + THRUST_MIN_AUV

\* a rudder mapping that does not clamp the raw action
_steerUnclamped(steer) == steer * RUDDER_MAX_AUV
\* _steer(steer)
_steer(steer) == Clip(steer, -1, 1) * RUDDER_MAX_AUV

\* AUV2D.__init__(t_step, init_pos, width=4); init_pos = <<x, y, psi>>
AUV2D(t_step, init_pos) ==
    LET st == init_pos \o <<0, 0, 0>>
    IN  [state |-> st,
         prev_states |-> <<st>>,
         width |-> DefaultWidth,
         t_step |-> t_step,
         input |-> <<0, 0>>,
         prev_inputs |-> <<(<<0, 0>>)>>]

\* AUV2D._sim, with nu_dot the value of
\*   const.M_inv.dot(B(nu).dot(input) - D(nu).dot(nu) - C(nu).dot(nu) - L(nu).dot(nu))
_sim(v, nu_dot) ==
    LET psi == v.state[3]
        nu == <<v.state[4], v.state[5], v.state[6]>>
        eta_dot == Rzyx(princip(psi), nu)
        state_dot == eta_dot \o nu_dot
        s1 == [i \in 1..6 |-> v.state[i] + state_dot[i] * v.t_step]
    IN  [s1 EXCEPT ![3] = princip(s1[3])]

\* a vessel step that keeps only the newest state and input
VesselStepForgetful(v, action, nu_dot) ==
    LET inp == <<_surge(action[1]), _steer(action[2])>>
        st == _sim([v EXCEPT !.input = inp], nu_dot)
    IN  [v EXCEPT !.input = inp, !.state = st,
                  !.prev_states = <<st>>, !.prev_inputs = <<inp>>]
\* AUV2D.step(action)
VesselStep(v, action, nu_dot) ==
    LET inp == <<_surge(action[1]), _steer(action[2])>>
        v1 == [v EXCEPT !.input = inp]
        st == _sim(v1, nu_dot)
    IN  [v1 EXCEPT !.state = st,
                   !.prev_states = Append(v.prev_states, st),
                   !.prev_inputs = Append(v.prev_inputs, inp)]

\* AUV2D.position, heading, velocity, max_speed
position(v) == <<v.state[1], v.state[2]>>
heading(v) == v.state[3]
velocity(v) == <<v.state[4], v.state[5]>>
max_speed(v) == MAX_SPEED

\* AUV2D.rudder_change: sum_rudder_change/n_samples, as the pair of its
\* numerator and its denominator
Min(a, b) == IF a < b THEN a ELSE b
\* lines 116-117: the sum of prev_inputs[-1 - i, 1] for i = i0 .. n - 1
RECURSIVE SumRudder(_, _, _)
SumRudder(inputs, i0, n) ==
    IF i0 >= n THEN 0
    ELSE inputs[Len(inputs) - i0][2] + SumRudder(inputs, i0 + 1, n)
rudder_change(v) ==
    LET n_samples == Min(RudderWindow, Len(v.prev_inputs))
    IN  [sum |-> SumRudder(v.prev_inputs, 0, n_samples), n_samples |-> n_samples]

(***************************************************************************)

(* objects/path.py: a curve.  An episode's curve is the straight line      *)
(* through the origin from start = 0.5*length*(cos a, sin a) to -start, a  *)
(* is angle_init (a whole number of quarter turns): the curve the          *)
(* waypoints <<start, end>> give.  Its arc length runs over 0 .. length.   *)
(***************************************************************************)
UnitVec(a) == Rzyx(a, <<1, 0, 0>>)

\* line 68: start
PathStart(p) ==
    <<(p.length \div 2) * UnitVec(p.angle_init)[1],
      (p.length \div 2) * UnitVec(p.angle_init)[2]>>

\* ParamCurve.length
PathLength(p) == p.length

\* ParamCurve.__call__(arclength)
PathAt(p, s) ==
    <<PathStart(p)[1] - s * UnitVec(p.angle_init)[1],
      PathStart(p)[2] - s * UnitVec(p.angle_init)[2]>>

\* ParamCurve.get_direction(arclength)
get_direction(p, s) ==
    arctan2(-UnitVec(p.angle_init)[2], -UnitVec(p.angle_init)[1])

\* ParamCurve.get_endpoint()
get_endpoint(p) == PathAt(p, PathLength(p))

\* the squared distance from path(s) to the position q
Dist2(p, s, q) ==
    LET at == PathAt(p, s)
    IN  (at[1] - q[1]) * (at[1] - q[1]) + (at[2] - q[2]) * (at[2] - q[2])

\* an arc length: the grid value s nearest to it and the side of s it lies
\* on (-1 below, 0 on it, 1 above)
Arc(s, side) == [s |-> s, side |-> side]

\* the whole arc length of lo..hi nearest to pos, by halving: along the
\* curve the distance to pos has one minimum, and lo..hi holds it
RECURSIVE Minimiser(_, _, _, _)
Minimiser(p, pos, lo, hi) ==
    IF lo = hi THEN lo
    ELSE LET mid == (lo + hi) \div 2
         IN  IF Dist2(p, mid, pos) <= Dist2(p, mid + 1, pos)
             THEN Minimiser(p, pos, lo, mid)
             ELSE Minimiser(p, pos, mid + 1, hi)

\* ParamCurve.get_closest_arclength(position): the results fminbound can
\* give.  m is the minimiser over [0, length] of the distance from path(s)
\* to the position; fminbound returns a point it has evaluated, inside
\* (0, length) and within xtol of m: m itself or a point on either side of
\* it, and never an end of the interval.
get_closest_arclength(p, pos) ==
    LET m == Minimiser(p, pos, 0, PathLength(p))
    IN  { Arc(m, side) : side \in { sd \in {-1, 0, 1} :
                                     /\ m > 0 \/ sd = 1
                                     /\ m < PathLength(p) \/ sd = -1 } }

(***************************************************************************)
(* envs/auv_env.py: AUVEnv.observe                                         *)
(***************************************************************************)
Raised(e) == [err |-> e, key |-> "", obs |-> <<>>]
Returned(o) == [err |-> "none", key |-> "", obs |-> o]

\* self.config[k] for the keys of reads, in the order they are read: the
\* first key the dictionary lacks (a KeyError naming it), or "" if none
RECURSIVE FirstMissing(_, _)
FirstMissing(cfg, reads) ==
    IF reads = <<>> THEN ""
    ELSE IF Head(reads) \notin DOMAIN cfg THEN Head(reads)
    ELSE FirstMissing(cfg, Tail(reads))
\* lines 205-206
ObserveReads == <<"los_dist", "obst_range">>

\* an observation array that does not start at zero
OnesObs == [i \in 1..(nstates + nsectors) |-> Scale]
\* np.zeros((self.nstates + self.nsectors,))
ZeroObs == [i \in 1..(nstates + nsectors) |-> 0]

\* distance_vec: the obstacle as seen from the vessel, in the vessel's frame
distance_vec(v, o) ==
    Rzyx(-heading(v), <<o.position[1] - position(v)[1],
                        o.position[2] - position(v)[2], 0>>)

\* dist < obst_range + obst.radius
InRange(v, o, cfg) == Norm(distance_vec(v, o)) < cfg.obst_range + o.radius

\* (princip(arctan2(y, x)) + pi) / (2*pi), as the angle code of 2*pi*ang
ang(v, o) ==
    princip(arctan2(distance_vec(v, o)[2], distance_vec(v, o)[1])) + Pi

\* 0 <= ang < 1
AngOk(v, o) == 0 <= ang(v, o) /\ ang(v, o) < 2 * Pi

\* int(np.floor(ang*self.nsectors))
SectorOf(v, o) == (ang(v, o) * nsectors) \div (2 * Pi)

\* Scale * np.clip((dist - radii)/obst_range, 0, 1) rounded up, where dist
\* is the square root of dist2: the least m of 0..Scale with
\* dist <= radii + m*obst_range/Scale, compared through the squares
ClippedGap(dist2, radii, obst_range) ==
    LET reach == [m \in 0..Scale |-> m * obst_range + Scale * radii]
        covers == {m \in 0..Scale :
                     /\ reach[m] >= 0
                     /\ reach[m] * reach[m] >= Scale * Scale * dist2}
    IN  IF covers = {} THEN Scale
        ELSE CHOOSE m \in covers : \A n \in covers : m <= n

\* 1 - np.clip((dist - vessel_radius - obst.radius)/obst_range, 0, 1),
\* rounded down to the grid
Closeness(v, o, cfg, vessel_radius) ==
    Scale - ClippedGap(distance_vec(v, o)[1] * distance_vec(v, o)[1]
                         + distance_vec(v, o)[2] * distance_vec(v, o)[2],
                       vessel_radius + o.radius, cfg.obst_range)

\* lines 229-244: the loop over the obstacles, from the i-th on.
\* self.vessel.radius is an attribute AUV2D never sets: reading it raises.
RECURSIVE ObstacleLoop(_, _, _, _, _)
ObstacleLoop(obs, v, obsts, cfg, i) ==
    IF i > Len(obsts) THEN Returned(obs)
    ELSE IF InRange(v, obsts[i], cfg) /\ AngOk(v, obsts[i])
    THEN IF "radius" \notin DOMAIN v
         THEN Raised("AttributeError")
         ELSE LET closeness == Closeness(v, obsts[i], cfg, v.radius)
                  isector == nstates + SectorOf(v, obsts[i])
              IN  ObstacleLoop(
                      IF obs[isector + 1] < closeness
                      THEN [obs EXCEPT ![isector + 1] = closeness]
                      ELSE obs,
                      v, obsts, cfg, i + 1)
    ELSE ObstacleLoop(obs, v, obsts, cfg, i + 1)

\* heading_error = princip(target_heading - self.vessel.heading)
heading_error(v, p, prog, cfg) ==
    princip(get_direction(p, prog + cfg.los_dist) - heading(v))

\* cross_track_error = Rzyx(0, 0, -path_direction).dot(path(prog) - position)[1]
cross_track_error(v, p, prog) ==
    Rzyx(-get_direction(p, prog),
         <<PathAt(p, prog)[1] - position(v)[1],
           PathAt(p, prog)[2] - position(v)[2], 0>>)[2]

\* lines 219-227: the six state channels (channel k is element k + 1)
StateChannels(v, p, prog, la, cfg) ==
    [ZeroObs EXCEPT
        ![1] = Clip((Scale * velocity(v)[1]) \div max_speed(v), 0, Scale),
        ![2] = Clip(Scale * velocity(v)[2] * SwayGain, -Scale, Scale),
        ![3] = Clip((Scale * heading_error(v, p, prog, cfg)) \div Pi, -Scale, Scale),
        ![4] = Clip((Scale * cross_track_error(v, p, prog)) \div cfg.los_dist,
                    -Scale, Scale),
        ![5] = Clip(Scale * la[1], 0, Scale),
        ![6] = Clip(Scale * la[2], -Scale, Scale)]

\* AUVEnv.observe()
observe(v, p, obsts, prog, la, cfg) ==
    IF FirstMissing(cfg, ObserveReads) # ""
    THEN [Raised("KeyError") EXCEPT !.key = FirstMissing(cfg, ObserveReads)]
    ELSE IF p = None \/ v = None THEN Raised("AttributeError")
    ELSE ObstacleLoop(StateChannels(v, p, prog, la, cfg), v, obsts, cfg, 1)

(***************************************************************************)
(* envs/auv_env.py: AUVEnv.step_reward                                     *)
(***************************************************************************)
\* abs(arc - length) < tol, for an arc length off its grid value by less
\* than any grid step
NearLength(arc, length, tol) ==
    \/ Abs(arc.s - length) < tol
    \/ Abs(arc.s - length) = tol /\ (arc.s - length) * arc.side < 0

\* the termination tests without the arc length test of line 136
DoneNoArcLength(rew, prog, v, p) ==
    \/ rew < RewardFloor * Scale * Scale
    \/ Norm(<<position(v)[1] - get_endpoint(p)[1],
              position(v)[2] - get_endpoint(p)[2]>>) < EndpointRadius
\* lines 133-148: the three termination tests; rew is self.reward
Done(rew, prog, v, p) ==
    \/ rew < RewardFloor * Scale * Scale
    \/ NearLength(prog, PathLength(p), ArcTolerance)
    \/ Norm(<<position(v)[1] - get_endpoint(p)[1],
              position(v)[2] - get_endpoint(p)[2]>>) < EndpointRadius

\* lines 153-155: the closeness term
RECURSIVE ClosenessSum(_, _, _)
ClosenessSum(obs, cfg, sector) ==
    IF sector = nsectors THEN 0
    ELSE cfg.reward_closeness * obs[nstates + sector + 1] * obs[nstates + sector + 1]
         + ClosenessSum(obs, cfg, sector + 1)

\* lines 158-159: surge_error = obs[0] - cruise_speed/max_speed
surge_error(obs, cfg) == obs[1] - (Scale * cfg.cruise_speed) \div MAX_SPEED

\* the step reward with every term added whether done or not
RewardAlwaysAll(done, obs, delta_path_prog, cfg) ==
    delta_path_prog * cfg.reward_ds * Scale * Scale
    + ClosenessSum(obs, cfg, 0)
    + Abs(obs[4]) * cfg.reward_cross_track_error * Scale
    + Max(0, -surge_error(obs, cfg)) * cfg.reward_surge_error * Scale
\* the step reward with the cross-track error taken with its sign
RewardNoAbs(done, obs, delta_path_prog, cfg) ==
    (IF ~done THEN delta_path_prog * cfg.reward_ds * Scale * Scale ELSE 0)
    + ClosenessSum(obs, cfg, 0)
    + (IF ~done
       THEN obs[4] * cfg.reward_cross_track_error * Scale
            + Max(0, -surge_error(obs, cfg)) * cfg.reward_surge_error * Scale
       ELSE 0)
\* lines 150-165: the step reward, given done
Reward(done, obs, delta_path_prog, cfg) ==
    (IF ~done THEN delta_path_prog * cfg.reward_ds * Scale * Scale ELSE 0)
    + ClosenessSum(obs, cfg, 0)
    + (IF ~done
       THEN Abs(obs[4]) * cfg.reward_cross_track_error * Scale
            + Max(0, -surge_error(obs, cfg)) * cfg.reward_surge_error * Scale
       ELSE 0)

\* the configuration keys step_reward reads, in order: lines 151, 155, 158,
\* 163, 165 (line 143, reward_collision, is commented out)
RewardReads(done) ==
    IF done THEN <<"reward_closeness">>
    ELSE <<"reward_ds", "reward_closeness", "cruise_speed",
           "reward_cross_track_error", "reward_surge_error">>

\* a step_reward that returns the running total instead of the step's reward
step_reward_cumulative(obs, delta_path_prog, rew, prog, v, p, cfg) ==
    LET done == Done(rew, prog, v, p)
    IN  [err |-> "none", key |-> "", done |-> done,
         step_reward |-> rew + Reward(done, obs, delta_path_prog, cfg)]
\* AUVEnv.step_reward(obs, delta_path_prog)
step_reward(obs, delta_path_prog, rew, prog, v, p, cfg) ==
    LET done == Done(rew, prog, v, p)
        missing == FirstMissing(cfg, RewardReads(done))
    IN  IF missing # ""
        THEN [err |-> "KeyError", key |-> missing, done |-> done,
              step_reward |-> 0]
        ELSE [err |-> "none", key |-> "", done |-> done,
              step_reward |-> Reward(done, obs, delta_path_prog, cfg)]

(***************************************************************************)
(* envs/auv_env.py: AUVEnv.generate, reset, seed                           *)
(***************************************************************************)
\* seeding.np_random(seed): a generator is its seed and the number of draws made
Generator(seed) == [seed |-> seed, draws |-> 0]

\* the draws one generate makes: angle_init (path.py line 67; the loop of
\* lines 71-84 draws nothing for nwaypoints // 2 = 0), lines 176-178, and
\* lines 184-187 for each obstacle (rand(), rand(2), rand())
DrawsMade(nobstacles) == 1 + 3 + 4 * nobstacles

\* RandomCurveThroughOrigin.__init__(self, rng, nwaypoints, length=400):
\* the parameters without a default
CurveRequired == {"rng", "nwaypoints"}
\* generate: RandomCurveThroughOrigin(rng=self.np_random), the arguments passed
CurveSupplied == {"rng"}

\* The values the generator's draws can take in one generate, on the grid:
\*   angle_init = 2*pi*(rand - 0.5)           a quarter turn
\*   2*(rand - 0.5)                           -1 or 0 (each axis; three
\*                                            of the four pairs)
\*   0.1*(rand - 0.5)                         none (rand = 0.5): the
\*                                            heading is the path's direction
\*   an obstacle: the arc length 0.9*length*(rand + 0.1), the offset
\*   25*(rand(2) - 0.5), the radius 10*(rand + 0.5)
\*   (rand = 0: the arc length 36, the nearest to the start)
ObstacleDraws ==
    { [s |-> 200, offset |-> <<8, 0>>, radius |-> 5],
      [s |-> 36, offset |-> <<12, 0>>, radius |-> 14] }

ObstacleLists(n) == [1..n -> ObstacleDraws]

Draws(n) ==
    [angle_init : {0, 4},
     pos_noise : {<<-1, -1>>, <<-1, 0>>, <<0, 0>>},
     angle_noise : {0},
     obst : ObstacleLists(n)]

\* StaticObstacle(position, radius), lines 184-188
StaticObstacle(p, d) ==
    [position |-> <<PathAt(p, d.s)[1] + d.offset[1],
                    PathAt(p, d.s)[2] + d.offset[2]>>,
     radius |-> d.radius]

\* lines 171-188: what generate assigns, given the curve and the draws
Generated(cfg, obsts, d) ==
    LET p == [angle_init |-> d.angle_init, length |-> DefaultLength]
        init_pos == <<PathAt(p, 0)[1] + d.pos_noise[1],
                      PathAt(p, 0)[2] + d.pos_noise[2]>>
        init_angle == get_direction(p, 0) + d.angle_noise
    IN  [path |-> p,
         vessel |-> AUV2D(cfg.t_step, init_pos \o <<init_angle>>),
         last_action |-> <<0, 0>>,
         obstacles |-> obsts \o [i \in 1..cfg.nobstacles |-> StaticObstacle(p, d.obst[i])]]

(***************************************************************************)
(* The configurations explored.                                            *)
(***************************************************************************)
Configs ==
    { [reward_ds |-> 1, reward_closeness |-> -1, reward_surge_error |-> -100,
       reward_cross_track_error |-> -400, reward_collision |-> -10,
       nobstacles |-> n, los_dist |-> 1, obst_range |-> 2, t_step |-> 1,
       cruise_speed |-> 1] : n \in 0..2 }
    \cup
    { [reward_ds |-> 400, reward_closeness |-> -2, reward_surge_error |-> -1,
       reward_cross_track_error |-> -1, reward_collision |-> -10,
       nobstacles |-> n, los_dist |-> 2, obst_range |-> 12, t_step |-> 1,
       cruise_speed |-> 1] : n \in 0..1 }
    \cup
    \* time steps long enough for one step to carry the vessel to the middle
    \* of the path, where an obstacle can lie (10), to its end (14) and
    \* beyond it (15)
    { [reward_ds |-> 1, reward_closeness |-> -2, reward_surge_error |-> -1,
       reward_cross_track_error |-> -1, reward_collision |-> -10,
       nobstacles |-> IF t = 10 THEN 1 ELSE 0, los_dist |-> 2,
       obst_range |-> 2, t_step |-> t, cruise_speed |-> 1] : t \in {10, 14, 15} }

\* the step calls explored: a raw action (inside and outside the declared
\* ranges) and the acceleration nu_dot = (surge, sway, yaw) the dynamics
\* answer it with
StepInputs ==
    { [action |-> <<2, -2>>, nu_dot |-> <<2, 0, 0>>],
      [action |-> <<-1, 1>>, nu_dot |-> <<-1, 0, 0>>],
      [action |-> <<1, 1>>, nu_dot |-> <<0, 1, 4>>] }

\* the arguments explored for a direct call of step_reward: an observation
\* with obstacles in three sectors and one with none, and a progress delta
RewardCalls ==
    { [obs |-> [ZeroObs EXCEPT ![4] = -Scale, ![7] = Scale, ![10] = 1,
                               ![14] = Scale - 1],
       delta |-> -1],
      [obs |-> [ZeroObs EXCEPT ![1] = Scale, ![4] = 1], delta |-> 2] }

\* the seed explored for an explicit seed call: another than the default
Seeds == {DefaultSeed + 2}

\* seen is the value of self.path_prog the call's observe has read (lines
\* 208-217), None if the call returned no observation
NoReturn(op, e) ==
    [op |-> op, err |-> e, key |-> "", obs |-> <<>>, step_reward |-> 0,
     done |-> FALSE, delta |-> 0, seen |-> None]

\* a returned observation: its channels and the progress they were read at
Observation(op, o, prog) ==
    [NoReturn(op, o.err) EXCEPT !.obs = o.obs, !.key = o.key,
                                !.seen = IF o.err = "none" THEN prog ELSE None]

(***************************************************************************)
(* The state machine.  AUVEnv(config) assigns the fields (lines 89-102)    *)
(* and calls reset (line 104).  Init is the object at line 104; its first  *)
(* step is the constructor's Reset, and nothing else runs before it.       *)
(***************************************************************************)
\* lines 89-102
Constructing(cfg) ==
    /\ config = cfg
    /\ vessel = None
    /\ path = None
    /\ np_random = None
    /\ obstacles = None
    /\ last_action = None

Init ==
    /\ reward = 0
    /\ path_prog = Arc(0, 0)
    /\ steps = 0
    /\ ret = NoReturn("init", "none")
    /\ curve = None
    /\ \E cfg \in Configs : Constructing(cfg)

\* the constructor has made its call of line 104: the object can be called
Called == ret.op # "init"

\* AUVEnv.reset(): lines 191-198, then generate, then observe.
\* generate's first statement calls RandomCurveThroughOrigin without its
\* nwaypoints argument: a TypeError, raised before anything is drawn.
Reset ==
    LET rng == IF np_random = None THEN Generator(DefaultSeed) ELSE np_random
    IN  /\ reward' = 0
        /\ path_prog' = Arc(0, 0)
        /\ steps' = 0
        /\ UNCHANGED <<config, curve>>
        /\ IF CurveRequired \subseteq CurveSupplied
           THEN \E d \in Draws(config.nobstacles) :
                  LET g == Generated(config, <<>>, d)
                      o == observe(g.vessel, g.path, g.obstacles, 0,
                                   g.last_action, config)
                  IN  /\ np_random' = [rng EXCEPT
                                          !.draws = @ + DrawsMade(config.nobstacles)]
                      /\ vessel' = g.vessel
                      /\ path' = g.path
                      /\ obstacles' = g.obstacles
                      /\ last_action' = g.last_action
                      /\ ret' = Observation("reset", o, Arc(0, 0))
           ELSE /\ np_random' = rng
                /\ vessel' = None
                /\ path' = None
                /\ obstacles' = <<>>
                /\ UNCHANGED last_action
                /\ ret' = NoReturn("reset", "TypeError")

\* an observe that empties the obstacle list it has read
ObserveConsuming ==
    LET o == observe(vessel, path, obstacles, path_prog.s, last_action, config)
    IN  /\ ret' = Observation("observe", o, path_prog)
        /\ obstacles' = <<>>
        /\ UNCHANGED <<config, vessel, path, np_random, reward, path_prog,
                       last_action, steps, curve>>
\* AUVEnv.observe(), called on its own
Observe ==
    LET o == observe(vessel, path, obstacles, path_prog.s, last_action, config)
    IN  /\ ret' = Observation("observe", o, path_prog)
        /\ UNCHANGED <<config, vessel, path, np_random, obstacles, reward,
                       path_prog, last_action, steps, curve>>

\* a step that calls observe before it stores the new progress: observe
\* finds the previous progress in self.path_prog
StoredAfterObserve(previous, prog) == previous
\* lines 120-122: the value of self.path_prog when step calls observe.  Line
\* 120 has stored prog there, so observe reads the new progress.
StoredAtObserve(previous, prog) == prog

\* AUVEnv.step(action); nu_dot is the acceleration the dynamics give.
\* (v, prog and o are the locals of step, each bound once to its value;
\* prog is one of the results the minimiser can give.)
Step(action, nu_dot) ==
    /\ steps < MaxSteps
    /\ steps' = steps + 1
    /\ last_action' = action
    /\ UNCHANGED <<config, path, np_random, obstacles, curve>>
    /\ IF vessel = None
       THEN /\ ret' = NoReturn("step", "AttributeError")
            /\ UNCHANGED <<vessel, reward, path_prog>>
       ELSE \E v \in {VesselStep(vessel, action, nu_dot)} :
            \E prog \in get_closest_arclength(path, position(v)) :
            \E at \in {StoredAtObserve(path_prog, prog)} :
            \E o \in {observe(v, path, obstacles, at.s, action, config)} :
              LET delta_path_prog == prog.s - path_prog.s
                  r == step_reward(o.obs, delta_path_prog, reward, prog, v,
                                   path, config)
              IN  /\ Abs(v.state[4]) <= MaxVel * v.t_step
                  /\ Abs(v.state[5]) <= MaxVel * v.t_step
                  /\ Abs(v.state[6]) <= 4
                  /\ vessel' = v
                  /\ path_prog' = prog
                  /\ IF o.err # "none"
                     THEN /\ ret' = [NoReturn("step", o.err) EXCEPT !.key = o.key]
                          /\ UNCHANGED reward
                     ELSE IF r.err # "none"
                     THEN /\ ret' = [NoReturn("step", r.err) EXCEPT !.key = r.key]
                          /\ UNCHANGED reward
                     ELSE /\ reward' = reward + r.step_reward
                          /\ ret' = [op |-> "step", err |-> "none",
                                     key |-> "", obs |-> o.obs,
                                     step_reward |-> r.step_reward,
                                     done |-> r.done,
                                     delta |-> delta_path_prog,
                                     seen |-> at]

\* AUVEnv.step_reward(obs, delta_path_prog), called on its own
StepReward(c) ==
    /\ IF vessel = None \/ path = None
       THEN ret' = NoReturn("step_reward", "AttributeError")
       ELSE LET r == step_reward(c.obs, c.delta, reward, path_prog, vessel,
                                 path, config)
            IN  IF r.err # "none"
                THEN ret' = [NoReturn("step_reward", r.err) EXCEPT !.key = r.key]
                ELSE ret' = [op |-> "step_reward", err |-> "none",
                             key |-> "", obs |-> c.obs,
                             step_reward |-> r.step_reward, done |-> r.done,
                             delta |-> c.delta, seen |-> None]
    /\ UNCHANGED <<config, vessel, path, np_random, obstacles, reward,
                   path_prog, last_action, steps, curve>>

\* AUVEnv.seed(seed): lines 248-250, a new generator; returns [seed]
Seed(seed) ==
    /\ np_random' = Generator(seed)
    /\ ret' = [NoReturn("seed", "none") EXCEPT !.obs = <<seed>>]
    /\ UNCHANGED <<config, vessel, path, obstacles, reward, path_prog,
                   last_action, steps, curve>>

Next ==
    \/ Reset
    \/ Called /\ Observe
    \/ Called /\ \E seed \in Seeds : Seed(seed)
    \/ Called /\ \E c \in RewardCalls : StepReward(c)
    \/ Called /\ \E i \in StepInputs : Step(i.action, i.nu_dot)

Spec == Init /\ [][Next]_vars

(***************************************************************************)
(* An object that holds an episode: the fields as lines 191-198 and        *)
(* generate (lines 171-188) assign them for a generator seeded by line     *)
(* 198, a straight curve (nwaypoints // 2 = 0) of the default length 400   *)
(* (path.py:66) and the draws d, and ret as the observe of line 202 ends.  *)
(* The calls on it are those of Next.  Line 171 as written raises before   *)
(* any of these fields is assigned, so no behaviour of the repository      *)
(* starts here: EpisodeSpec is used to establish what the methods do once  *)
(* an episode exists, never to show a behaviour of the repository.         *)
(***************************************************************************)
EpisodeInit ==
    \E cfg \in Configs :
      \E d \in Draws(cfg.nobstacles) :
        LET g == Generated(cfg, <<>>, d)
            o == observe(g.vessel, g.path, g.obstacles, 0, g.last_action, cfg)
        IN  /\ config = cfg
            /\ vessel = g.vessel
            /\ path = g.path
            /\ obstacles = g.obstacles
            /\ last_action = g.last_action
            /\ np_random = [Generator(DefaultSeed) EXCEPT
                               !.draws = DrawsMade(cfg.nobstacles)]
            /\ reward = 0
            /\ path_prog = Arc(0, 0)
            /\ steps = 0
            /\ ret = Observation("reset", o, Arc(0, 0))
            /\ curve = None

EpisodeSpec == EpisodeInit /\ [][Next]_vars

(***************************************************************************)
(* objects/auv.py: AUV2D(t_step, init_pos) on its own, with the init_pos   *)
(* generate passes (lines 173-180): the start of a path, moved by -1 or 0  *)
(* on each axis, and the path's direction with or without the noise of     *)
(* line 178.  A vessel whose heading has the noise is stepped at rest.     *)
(***************************************************************************)
\* lines 171-180: the path through angle_init, the draws of lines 176-178
\* (the noise of line 178 is below, none, or above), and the vessel
VesselInit ==
    /\ \E a \in {-8, -4, 0, 4} :
         \E pn \in {<<-1, -1>>, <<-1, 0>>, <<0, -1>>, <<0, 0>>} :
           \E n \in {-1, 0, 1} :
             LET p == [angle_init |-> a, length |-> DefaultLength]
             IN  vessel = AUV2D(1, <<PathAt(p, 0)[1] + pn[1],
                                     PathAt(p, 0)[2] + pn[2],
                                     get_direction(p, 0) + n>>)
    /\ config = None
    /\ path = None
    /\ np_random = None
    /\ obstacles = None
    /\ last_action = None
    /\ reward = 0
    /\ path_prog = Arc(0, 0)
    /\ steps = 0
    /\ ret = NoReturn("AUV2D", "none")
    /\ curve = None

\* the position the step gives is on the grid: the heading is a whole
\* number of quarter turns, or the vessel does not move
OnGrid(v) == heading(v) % 4 = 0 \/ (velocity(v)[1] = 0 /\ velocity(v)[2] = 0)

\* vessel.step(action), called on its own; returns None
VesselStepCall(action, nu_dot) ==
    /\ steps < MaxSteps
    /\ OnGrid(vessel)
    /\ \E v \in {VesselStep(vessel, action, nu_dot)} :
         /\ Abs(v.state[4]) <= MaxVel * v.t_step
         /\ Abs(v.state[5]) <= MaxVel * v.t_step
         /\ Abs(v.state[6]) <= 4
         /\ vessel' = v
    /\ steps' = steps + 1
    /\ ret' = NoReturn("vessel.step", "none")
    /\ UNCHANGED <<config, path, np_random, obstacles, reward, path_prog,
                   last_action, curve>>

VesselNext == \E i \in StepInputs : VesselStepCall(i.action, i.nu_dot)

VesselSpec == VesselInit /\ [][VesselNext]_vars

(***************************************************************************)
(* AUVEnv(config) for a configuration that lacks one option: as Init.      *)
(***************************************************************************)
\* the members env_config should contain, lines 61-88
ConfigKeys ==
    {"reward_ds", "reward_closeness", "reward_surge_error",
     "reward_cross_track_error", "reward_collision", "nobstacles",
     "los_dist", "obst_range", "t_step", "cruise_speed"}
\* the dictionary cfg with the key k left out
Without(cfg, k) == [x \in DOMAIN cfg \ {k} |-> cfg[x]]

ConfigInit ==
    /\ reward = 0
    /\ path_prog = Arc(0, 0)
    /\ steps = 0
    /\ ret = NoReturn("init", "none")
    /\ curve = None
    /\ \E cfg \in {c \in Configs : c.nobstacles = 0} :
         \E k \in ConfigKeys : Constructing(Without(cfg, k))

ConfigSpec == ConfigInit /\ [][Next]_vars

(***************************************************************************)
(* objects/path.py: RandomCurveThroughOrigin.__init__(rng, nwaypoints,     *)
(* length), called on its own.  curve holds the call's arguments and       *)
(* locals; a step is one pass of the loop of lines 71-84, and the last     *)
(* step is line 85.  The start is at a whole number of quarter turns and   *)
(* the lengths explored are multiples of 48, so for nwaypoints // 2 <= 3   *)
(* every division of lines 72-79 is exact.                                 *)
(***************************************************************************)
\* the largest nwaypoints explored
MaxWaypoints == 5
\* the length arguments explored
CurveLengths == {48, 96}
\* the angle_init = 2*pi*(rand - 0.5) explored: the quarter turns of [-pi, pi)
CurveAngles == {-8, -4, 0, 4}
\* the values of rng.rand() - 0.5 explored, in quarters: rand = 0, 1/2, 3/4
RandQuarters == {-2, 0, 1}

\* lines 72-75 and 76-79: (nwaypoints // 2 - waypoint) * point / (nwaypoints // 2 + 1)
\* + length / (nwaypoints // 2 + 1) * (rand - 0.5); the offset is a scalar,
\* added to both coordinates
NewPoint(point, half_n, waypoint, length, q) ==
    LET offset == (length * q) \div (4 * (half_n + 1))
    IN  <<((half_n - waypoint) * point[1]) \div (half_n + 1) + offset,
          ((half_n - waypoint) * point[2]) \div (half_n + 1) + offset>>

\* a stacking that keeps one row more at the end
InsertedKeepingMiddle(waypoints, waypoint, newpoint1, newpoint2) ==
    SubSeq(waypoints, 1, waypoint + 1)
    \o <<newpoint1, <<0, 0>>, newpoint2>>
    \o SubSeq(waypoints, Max(1, Len(waypoints) - waypoint - 1), Len(waypoints))

\* lines 80-84: np.vstack([waypoints[:waypoint+1, :], newpoint1, [0, 0],
\* newpoint2, waypoints[-1*waypoint-1:, :]])
Inserted(waypoints, waypoint, newpoint1, newpoint2) ==
    SubSeq(waypoints, 1, waypoint + 1)
    \o <<newpoint1, <<0, 0>>, newpoint2>>
    \o SubSeq(waypoints, Max(1, Len(waypoints) - waypoint), Len(waypoints))

\* lines 67-70: the call has drawn angle_init and set start, end, waypoints
CurveInit ==
    /\ \E n \in 0..MaxWaypoints : \E length \in CurveLengths :
       \E a \in CurveAngles :
         LET start == <<(length \div 2) * UnitVec(a)[1],
                        (length \div 2) * UnitVec(a)[2]>>
             end == <<-start[1], -start[2]>>
         IN  curve = [nwaypoints |-> n, length |-> length, angle_init |-> a,
                      start |-> start, end |-> end,
                      waypoints |-> <<start, end>>, waypoint |-> 0,
                      pc |-> "loop"]
    /\ config = None
    /\ vessel = None
    /\ path = None
    /\ np_random = None
    /\ obstacles = <<>>
    /\ reward = 0
    /\ path_prog = Arc(0, 0)
    /\ last_action = None
    /\ steps = 0
    /\ ret = NoReturn("init", "none")

\* one pass of the loop, lines 72-84, with the two draws q1 and q2
Pass(q1, q2) ==
    /\ curve.pc = "loop"
    /\ curve.waypoint < curve.nwaypoints \div 2
    /\ LET half_n == curve.nwaypoints \div 2
           newpoint1 == NewPoint(curve.start, half_n, curve.waypoint,
                                 curve.length, q1)
           newpoint2 == NewPoint(curve.end, half_n, curve.waypoint,
                                 curve.length, q2)
       IN  curve' = [curve EXCEPT
                       !.waypoints = Inserted(curve.waypoints, curve.waypoint,
                                              newpoint1, newpoint2),
                       !.waypoint = curve.waypoint + 1]
    /\ UNCHANGED <<config, vessel, path, np_random, obstacles, reward,
                   path_prog, last_action, steps, ret>>

\* line 85, after the loop: ParamCurve is built through the waypoints
Construct ==
    /\ curve.pc = "loop"
    /\ curve.waypoint >= curve.nwaypoints \div 2
    /\ curve' = [curve EXCEPT !.pc = "done"]
    /\ UNCHANGED <<config, vessel, path, np_random, obstacles, reward,
                   path_prog, last_action, steps, ret>>

CurveNext ==
    \/ \E q1 \in RandQuarters : \E q2 \in RandQuarters : Pass(q1, q2)
    \/ Construct

CurveSpec == CurveInit /\ [][CurveNext]_vars

(***************************************************************************)
(* The claims.                                                             *)
(***************************************************************************)
Sq(x) == x * x
Dist2Between(a, b) == Sq(a[1] - b[1]) + Sq(a[2] - b[2])
Returned14 == ret.err = "none" /\ Len(ret.obs) = nstates + nsectors
\* the sum over the eight sector channels of closeness squared
SectorSquares(obs) ==
    Sq(obs[7]) + Sq(obs[8]) + Sq(obs[9]) + Sq(obs[10])
    + Sq(obs[11]) + Sq(obs[12]) + Sq(obs[13]) + Sq(obs[14])
\* obstacle i is within obst_range + radius of the vessel
Within(i) ==
    Dist2Between(obstacles[i].position, position(vessel))
        < Sq(config.obst_range + obstacles[i].radius)
\* the last call ran observe on the environment's vessel and obstacles
Observed == ret.op \in {"step", "observe"} /\ vessel # None
\* the last call is one that returns an observation
ObservationDue == ret.op \in {"step", "observe"}

\* C1: reset, called from any state, completes without raising: it leaves a
\* path, a vessel and config.nobstacles obstacles, and returns an observation
\* of nstates + nsectors = 14 values.
C1_ResetCompletes ==
    ret.op = "reset" =>
        /\ Returned14
        /\ path # None
        /\ vessel # None
        /\ Len(obstacles) = config.nobstacles

ArcBelow(a, n) == a.s < n \/ (a.s = n /\ a.side < 0)
ArcAbove(a, n) == a.s > n \/ (a.s = n /\ a.side > 0)
\* |a - length| < 1
WithinOneOf(a, length) == ArcAbove(a, length - 1) /\ ArcBelow(a, length + 1)

\* C4: a returned step has done = true if and only if the accumulated reward
\* the termination test read (the total before this step's reward) is below
\* -300, or |progress - path length| < 1, or the vessel is less than 10 from
\* the path's endpoint, all taken after the integration; obstacles play no
\* part.
C4_DoneIff ==
    (ret.op = "step" /\ ret.err = "none") =>
        (ret.done <=>
            \/ reward - ret.step_reward < RewardFloor * Scale * Scale
            \/ WithinOneOf(path_prog, path.length)
            \/ Dist2Between(position(vessel), get_endpoint(path))
                   < Sq(EndpointRadius))

\* C4's case: a returned step with done = true by the arc length alone: the
\* progress is within 1 of the path length, the vessel is 10 or more from
\* the endpoint, and the accumulated reward the test read is not below -300.
C4_Witness ==
    /\ ret.op = "step" /\ ret.err = "none" /\ ret.done
    /\ WithinOneOf(path_prog, path.length)
    /\ reward - ret.step_reward >= RewardFloor * Scale * Scale
    /\ Dist2Between(position(vessel), get_endpoint(path)) >= Sq(EndpointRadius)

\* C5: on a step that does not terminate the reward is
\*   reward_ds*delta_progress + sum over sectors of reward_closeness*closeness^2
\*   + reward_cross_track_error*|obs[3]|
\*   + reward_surge_error*max(0, cruise_speed/max_speed - obs[0]).
C5_RewardNotDone ==
    (ret.op \in {"step", "step_reward"} /\ ret.err = "none" /\ ~ret.done) =>
        ret.step_reward =
            config.reward_ds * ret.delta * Scale * Scale
            + config.reward_closeness * SectorSquares(ret.obs)
            + config.reward_cross_track_error * Abs(ret.obs[4]) * Scale
            + config.reward_surge_error * Scale
              * Max(0, (Scale * config.cruise_speed) \div MAX_SPEED - ret.obs[1])

\* C5's case: a step that does not terminate, with backward progress and the
\* vessel off the path on the side where obs[3] is negative.
C5_Witness ==
    /\ ret.op = "step" /\ ret.err = "none" /\ ~ret.done
    /\ ret.delta < 0
    /\ ret.obs[4] < 0
    /\ ret.step_reward < 0

\* C6: on a terminating step the reward is the closeness term alone, the sum
\* over the sectors of reward_closeness*closeness^2.
C6_RewardDone ==
    (ret.op \in {"step", "step_reward"} /\ ret.err = "none" /\ ret.done) =>
        ret.step_reward = config.reward_closeness * SectorSquares(ret.obs)

\* C6's case: a terminating call whose observation has obstacles in its
\* sectors, a cross-track error and a progress delta.
C6_Witness ==
    /\ ret.op \in {"step", "step_reward"} /\ ret.err = "none" /\ ret.done
    /\ SectorSquares(ret.obs) > 0
    /\ ret.obs[4] # 0
    /\ ret.delta # 0
    /\ ret.step_reward < 0

\* C7: every observation returned has channels 0 and 4 in [0, 1], channels
\* 1, 2, 3 and 5 in [-1, 1] and every sector channel in [0, 1].
C7_ObservationBounds ==
    (ret.op \in {"reset", "step", "observe"} /\ ret.err = "none") =>
        /\ Len(ret.obs) = nstates + nsectors
        /\ ret.obs[1] \in 0..Scale
        /\ ret.obs[5] \in 0..Scale
        /\ \A k \in {2, 3, 4, 6} : ret.obs[k] \in (-Scale)..Scale
        /\ \A k \in (nstates + 1)..(nstates + nsectors) : ret.obs[k] \in 0..Scale

\* C7's case: a returned step whose raw action is outside the declared
\* ranges and whose sway velocity is beyond the sway scale.
C7_Witness ==
    /\ ret.op = "step" /\ ret.err = "none"
    /\ last_action[1] > 1 /\ last_action[2] < -1
    /\ ret.obs[5] = Scale /\ ret.obs[6] = -Scale
    /\ Abs(velocity(vessel)[2] * SwayGain) > 1

\* C8: in every observation returned, a sector into which no obstacle within
\* obst_range + radius maps is exactly 0: an obstacle at or beyond that
\* distance contributes nothing, and nothing remains from an earlier observe.
C8_OutOfRangeIsZero ==
    (Observed /\ ret.err = "none") =>
        \A k \in 0..(nsectors - 1) :
            (~\E i \in 1..Len(obstacles) :
                  /\ Within(i)
                  /\ AngOk(vessel, obstacles[i])
                  /\ SectorOf(vessel, obstacles[i]) = k)
            => ret.obs[nstates + k + 1] = 0

\* C8's case: a step returned an observation while an obstacle lies at or
\* beyond obst_range + radius.
C8_Witness ==
    /\ ret.op = "step" /\ ret.err = "none"
    /\ \E i \in 1..Len(obstacles) : ~Within(i)

\* the closeness of obstacle i, with the vessel's width as its radius
ClosenessOf(i) == Closeness(vessel, obstacles[i], config, vessel.width)
\* the largest closeness among the obstacles in range that map into sector k
MaxCloseness(k) ==
    LET cs == { ClosenessOf(i) : i \in { j \in 1..Len(obstacles) :
                    /\ Within(j)
                    /\ AngOk(vessel, obstacles[j])
                    /\ SectorOf(vessel, obstacles[j]) = k } } \cup {0}
    IN  CHOOSE c \in cs : \A d \in cs : d <= c

StoredHeadings(v) == {heading(v)} \cup { v.prev_states[i][3] : i \in 1..Len(v.prev_states) }

\* C11: the heading is in the principal range (-pi, pi] in every stored
\* state: the initial state generate creates, the state after every step, and
\* every entry of the state history.
C11_HeadingPrincipal ==
    vessel # None => \A h \in StoredHeadings(vessel) : -Pi < h /\ h <= Pi

\* a raw actuator value clamped to [lo, hi]
Clamped(x, lo, hi) == IF x < lo THEN lo ELSE IF x > hi THEN hi ELSE x
\* the physical command of a raw action: the propeller clamped to [0, 1] and
\* interpolated between THRUST_MIN and THRUST_MAX, the rudder clamped to
\* [-1, 1] and scaled by RUDDER_MAX
Commanded(a) ==
    <<(1 - Clamped(a[1], 0, 1)) * THRUST_MIN_AUV
          + Clamped(a[1], 0, 1) * THRUST_MAX_AUV,
      Clamped(a[2], -1, 1) * RUDDER_MAX_AUV>>
\* the vessel has been stepped at least once
Stepped == vessel # None /\ Len(vessel.prev_inputs) > 1

\* C12: the vessel's step accepts any raw action: the input it applies and
\* appends to the input history is the physical command of the raw action
\* (clamped, then mapped linearly), and every input entry a step appended is
\* within [THRUST_MIN, THRUST_MAX] x [-RUDDER_MAX, RUDDER_MAX].
C12_InputsAreCommands ==
    Stepped =>
        /\ vessel.input = Commanded(last_action)
        /\ vessel.prev_inputs[Len(vessel.prev_inputs)] = vessel.input
        /\ \A i \in 2..Len(vessel.prev_inputs) :
              /\ vessel.prev_inputs[i][1] \in THRUST_MIN_AUV..THRUST_MAX_AUV
              /\ vessel.prev_inputs[i][2] \in (-RUDDER_MAX_AUV)..RUDDER_MAX_AUV

\* C12's case: a step took a raw action outside both declared ranges and
\* applied the extreme physical command, which differs from the raw action.
C12_Witness ==
    /\ Stepped
    /\ last_action[1] > 1 /\ last_action[2] < -1
    /\ vessel.input = <<THRUST_MAX_AUV, -RUDDER_MAX_AUV>>
    /\ vessel.input[1] # last_action[1]

\* s is t with exactly one entry added at its end
ExtendsByOne(s, t) == Len(s) = Len(t) + 1 /\ SubSeq(s, 1, Len(t)) = t

\* C13: the state and input histories are append-only.  After k steps of an
\* episode both hold k + 1 entries and the last state entry is the current
\* state; a step keeps every earlier entry and adds exactly one state, the
\* state after the integration, and one input.
C13_HistoriesAppendOnly ==
    /\ [](vessel # None =>
            /\ Len(vessel.prev_states) = steps + 1
            /\ Len(vessel.prev_inputs) = steps + 1
            /\ vessel.prev_states[Len(vessel.prev_states)] = vessel.state)
    /\ [][(vessel # None /\ vessel' # None /\ vessel' # vessel) =>
            /\ ExtendsByOne(vessel'.prev_states, vessel.prev_states)
            /\ ExtendsByOne(vessel'.prev_inputs, vessel.prev_inputs)
            /\ vessel'.prev_inputs[Len(vessel'.prev_inputs)] = vessel'.input]_vars

\* C13's case: two steps were made and the three state entries differ.
C13_Witness ==
    /\ vessel # None
    /\ steps = 2
    /\ Len(vessel.prev_states) = 3
    /\ vessel.prev_states[1] # vessel.prev_states[2]
    /\ vessel.prev_states[2] # vessel.prev_states[3]
    /\ vessel.prev_inputs[2] # vessel.prev_inputs[3]

\* C14: step and observe (and step_reward) leave the obstacle list, with its
\* positions and radii, and the path unchanged; only reset changes them.
C14_EpisodeIsImmutable ==
    [][/\ ret'.op \in {"step", "observe", "step_reward"}
           => (obstacles' = obstacles /\ path' = path)
       /\ (obstacles' # obstacles \/ path' # path) => ret'.op = "reset"]_vars

\* C14's case: an episode with obstacles was stepped twice and then observed,
\* and the vessel moved.
C14_Witness ==
    /\ ret.op = "observe"
    /\ steps = 2
    /\ path # None /\ vessel # None
    /\ Len(obstacles) = 2
    /\ position(vessel) # <<vessel.prev_states[1][1], vessel.prev_states[1][2]>>

\* C15: after any sequence of steps and resets, a reset leaves a fresh
\* episode: accumulated reward 0, progress 0, last action (0, 0), a new
\* vessel with zero velocities and one-entry histories, and exactly
\* config.nobstacles obstacles.
C15_ResetLeavesFreshEpisode ==
    ret.op = "reset" =>
        /\ reward = 0
        /\ path_prog = Arc(0, 0)
        /\ vessel # None
        /\ last_action = <<0, 0>>
        /\ <<vessel.state[4], vessel.state[5], vessel.state[6]>> = <<0, 0, 0>>
        /\ Len(vessel.prev_states) = 1
        /\ Len(vessel.prev_inputs) = 1
        /\ Len(obstacles) = config.nobstacles

\* C16: with an option missing from the configuration, the constructor's
\* reset fails with a KeyError naming a missing key; no later call raises
\* the KeyError instead, and no step computes a reward without the option.
C16_MissingKeyFailsAtConstruction ==
    ConfigKeys \ DOMAIN config # {} =>
        /\ ret.op = "reset" =>
              (ret.err = "KeyError" /\ ret.key \in ConfigKeys \ DOMAIN config)
        /\ ret.op \in {"step", "observe", "step_reward"} => ret.err # "KeyError"
        /\ ret.op \in {"step", "step_reward"} => ret.err # "none"

\* the sum of the rudder commands of a sequence of inputs
RECURSIVE RudderTotal(_)
RudderTotal(s) == IF s = <<>> THEN 0 ELSE s[1][2] + RudderTotal(Tail(s))
\* the inputs the steps applied: the input history without the entry the
\* constructor put there
AppliedInputs(v) == SubSeq(v.prev_inputs, 2, Len(v.prev_inputs))
\* the last m entries of s
LastOf(s, m) == SubSeq(s, Len(s) - m + 1, Len(s))

\* C17: after k >= 1 steps the smoothed rudder change is the mean of the
\* most recent min(10, k) rudder commands the steps applied (sum / count,
\* compared by cross-multiplication); the constructor's entry is not counted.
C17_RudderChangeIsMeanOfApplied ==
    Stepped =>
        LET applied == AppliedInputs(vessel)
            m == Min(RudderWindow, Len(applied))
        IN  rudder_change(vessel).sum * m
                = RudderTotal(LastOf(applied, m)) * rudder_change(vessel).n_samples

\* C18: the environment's generator is created only by an explicit seed
\* call or by a reset that finds none; once there is one, every call other
\* than seed, and so every later reset, keeps it and only continues its
\* stream.  A reset that follows a seed call builds its episode (path,
\* vessel, config.nobstacles obstacles) from that seeded generator, so the
\* same seed gives the same episode again.
C18_GeneratorOwnedAndReproducible ==
    [][/\ (np_random = None /\ np_random' # None)
             => ret'.op \in {"seed", "reset"}
       /\ (np_random # None /\ ret'.op # "seed")
             => /\ np_random' # None
                /\ np_random'.seed = np_random.seed
                /\ np_random'.draws >= np_random.draws
       /\ (ret.op = "seed" /\ ret'.op = "reset")
             => /\ ret'.err = "none"
                /\ path' # None
                /\ vessel' # None
                /\ Len(obstacles') = config.nobstacles]_vars

\* s is an arc length of the path p closest to the position pos: along a
\* straight curve the distance to pos has one minimum, so s is closest when
\* neither the arc lengths next to it nor the ends of the curve are closer
IsClosest(p, s, pos) ==
    /\ s \in 0..(p.length)
    /\ \A t \in {s - 1, s + 1, 0, p.length} \cap (0..(p.length)) :
          Dist2Between(PathAt(p, s), pos) <= Dist2Between(PathAt(p, t), pos)

\* C19: the stored progress always lies in [0, path length].  A step records
\* the raw action first (also when the vessel is missing), then integrates
\* the vessel, then overwrites the stored progress with the closest arc
\* length to the new position, with no clamp to the previous progress (both
\* also when the observation then fails), then builds the observation from
\* the new state, the new action and the new progress (the progress observe
\* has read is the stored one), and last computes the reward from that
\* observation and delta = new progress - previous progress and adds it to
\* the accumulated reward.
C19_StepOrder ==
    /\ [](path # None => /\ ~ArcBelow(path_prog, 0)
                          /\ ~ArcAbove(path_prog, path.length))
    /\ [][(ret'.op = "step" /\ steps' = steps + 1) =>
            /\ last_action' \in { i.action : i \in StepInputs }
            /\ vessel # None =>
                  /\ vessel'.input = Commanded(last_action')
                  /\ ExtendsByOne(vessel'.prev_states, vessel.prev_states)
                  /\ IsClosest(path, path_prog'.s, position(vessel'))
            /\ ret'.err = "none" =>
                  /\ ret'.delta = path_prog'.s - path_prog.s
                  /\ ret'.seen = path_prog'
                  /\ ret'.obs[1] = Clamped((Scale * vessel'.state[4]) \div MAX_SPEED,
                                           0, Scale)
                  /\ ret'.obs[5] = Scale * Clamped(last_action'[1], 0, 1)
                  /\ ret'.obs[6] = Scale * Clamped(last_action'[2], -1, 1)
                  /\ reward' = reward + ret'.step_reward
            /\ ret'.err # "none" => reward' = reward]_vars

\* C19's case: a returned step moved the vessel back to the start of the
\* path, so the stored progress decreased, to 0, and its observation was read
\* at that new progress.
C19_Witness ==
    /\ ret.op = "step" /\ ret.err = "none"
    /\ ret.delta < 0
    /\ path_prog.s = 0
    /\ ret.seen = path_prog
    /\ vessel.state # vessel.prev_states[1]

\* the reward of one step, from what the step returned: the progress,
\* cross-track and surge terms unless done, and the closeness term
RewardOfStep(r) ==
    config.reward_closeness * SectorSquares(r.obs)
    + (IF r.done THEN 0
       ELSE config.reward_ds * r.delta * Scale * Scale
            + config.reward_cross_track_error * Abs(r.obs[4]) * Scale
            + config.reward_surge_error * Scale
              * Max(0, (Scale * config.cruise_speed) \div MAX_SPEED - r.obs[1]))

\* C20: the accumulated reward is 0 after a reset and changes only by a
\* returned step, which adds exactly the reward it returns; that reward is
\* the reward of this step alone, whatever the total; and the termination
\* test of the step compares the total as it was before the addition with
\* -300.
C20_RewardAccumulates ==
    /\ [](ret.op \in {"init", "reset"} => reward = 0)
    /\ [][/\ (ret'.op = "step" /\ ret'.err = "none" /\ steps' = steps + 1) =>
               /\ ret'.step_reward = RewardOfStep(ret')
               /\ reward' = reward + ret'.step_reward
               /\ reward < RewardFloor * Scale * Scale => ret'.done
               /\ ret'.done =>
                     \/ reward < RewardFloor * Scale * Scale
                     \/ WithinOneOf(path_prog', path.length)
                     \/ Dist2Between(position(vessel'), get_endpoint(path))
                            < Sq(EndpointRadius)
          /\ ~(ret'.op = "step" /\ ret'.err = "none") =>
               (reward' = reward \/ (ret'.op = "reset" /\ reward' = 0))]_vars

\* C20's case: the second returned step of an episode takes the total below
\* -300; the total before it was not below, so the step is not done, and the
\* reward it returns is not the total.
C20_Witness ==
    /\ ret.op = "step" /\ ret.err = "none" /\ steps = 2
    /\ reward < RewardFloor * Scale * Scale
    /\ reward - ret.step_reward >= RewardFloor * Scale * Scale
    /\ ~ret.done
    /\ ret.step_reward # reward
    /\ ret.step_reward # 0

\* x and y are consecutive entries of the sequence s
Adjacent(s, x, y) == \E j \in 1..(Len(s) - 1) : s[j] = x /\ s[j + 1] = y
\* the number of entries of s equal to x
Occurrences(s, x) == Cardinality({ j \in 1..Len(s) : s[j] = x })
\* the largest offset of a pass: length/(nwaypoints // 2 + 1) * 1/2
OffsetBound(c) == c.length \div (2 * (c.nwaypoints \div 2 + 1))
\* p is the point at the fraction (h - w)/(h + 1) of the way from the origin
\* to q, moved by one offset d, |d| <= length/(2*(h + 1)), on both axes
IsPerturbed(p, q, c) ==
    \E d \in (-OffsetBound(c))..OffsetBound(c) :
        p = <<((c.nwaypoints \div 2 - c.waypoint) * q[1])
                  \div (c.nwaypoints \div 2 + 1) + d,
              ((c.nwaypoints \div 2 - c.waypoint) * q[2])
                  \div (c.nwaypoints \div 2 + 1) + d>>

\* C21: for every waypoint count the sequence starts at start and ends at
\* -start; every insertion pass leaves a midpoint (0, 0) in it, puts new
\* points between each pair of waypoints that were consecutive before the
\* pass, and keeps every earlier waypoint, once.
C21_InsertedBetweenEachPair ==
    /\ [](curve # None =>
            /\ curve.waypoints[1] = curve.start
            /\ curve.waypoints[Len(curve.waypoints)]
                   = <<-curve.start[1], -curve.start[2]>>)
    /\ [][(curve # None /\ curve'.waypoint = curve.waypoint + 1) =>
            /\ Occurrences(curve'.waypoints, <<0, 0>>) = 1
            /\ \A i \in 1..(Len(curve.waypoints) - 1) :
                  ~Adjacent(curve'.waypoints, curve.waypoints[i],
                            curve.waypoints[i + 1])
            /\ \A i \in 1..Len(curve.waypoints) :
                  Occurrences(curve'.waypoints, curve.waypoints[i])
                      = Occurrences(curve.waypoints, curve.waypoints[i])]_vars

\* C21, amended: for every waypoint count the sequence starts at start and
\* ends at -start, and after k >= 1 passes it holds 2k + 3 waypoints with
\* (0, 0) in the middle.  Pass number w (from 0) keeps the first w + 1 and
\* the last w + 1 waypoints in place, replaces the previous midpoint (0, 0)
\* by a new one, and inserts exactly two new perturbed points, one on each
\* side of the midpoint, next to it: no other consecutive pair is separated.
C21_InsertedAroundMidpoint ==
    /\ [](curve # None =>
            /\ curve.waypoint \in 0..(curve.nwaypoints \div 2)
            /\ curve.waypoints[1] = curve.start
            /\ curve.waypoints[Len(curve.waypoints)]
                   = <<-curve.start[1], -curve.start[2]>>
            /\ Len(curve.waypoints)
                   = IF curve.waypoint = 0 THEN 2 ELSE 2 * curve.waypoint + 3
            /\ curve.waypoint >= 1
                   => curve.waypoints[curve.waypoint + 2] = <<0, 0>>)
    /\ [][(curve # None /\ curve'.waypoint = curve.waypoint + 1) =>
            LET old == curve.waypoints
                new == curve'.waypoints
                w == curve.waypoint
            IN  /\ \A i \in 1..(w + 1) :
                      /\ new[i] = old[i]
                      /\ new[Len(new) + 1 - i] = old[Len(old) + 1 - i]
                /\ w >= 1 => (Len(old) = 2 * w + 3 /\ old[w + 2] = <<0, 0>>)
                /\ new[w + 3] = <<0, 0>>
                /\ IsPerturbed(new[w + 2], curve.start, curve)
                /\ IsPerturbed(new[w + 4], curve.end, curve)
                /\ Len(new) = 2 * (w + 1) + 3]_vars

\* C21's case: the second pass of a construction with nwaypoints // 2 = 2
\* has been made, with the four inserted points all moved off the line from
\* start to end.
C21_Witness ==
    /\ curve # None
    /\ curve.nwaypoints \div 2 = 2
    /\ curve.waypoint = 2
    /\ Len(curve.waypoints) = 7
    /\ \A i \in {2, 3, 5, 6} :
          curve.waypoints[i][1] * curve.start[2]
              # curve.waypoints[i][2] * curve.start[1]

====
